---- MODULE Spec2Model ----
(***************************************************************************)
(* A model of the HTTP micro-framework of src/m/__init__.py: the           *)
(* parameter type registry (PATTERNS, CASTS), the route rule compiler      *)
(* (Router._rule_parse, Router._spec_parse, re.compile), the router        *)
(* (Router.match, Router._apply_filter), the filter contract (Filter) and  *)
(* the application (Application.__call__, register_extension).             *)
(*                                                                         *)
(* Text is a sequence of one-character strings.  The characters of the     *)
(* model are the ones of Chars: lower-case letters, digits and the         *)
(* punctuation of paths, hosts and route rules.  Chars holds no line       *)
(* break, so "." stands for every character and "$" for the end of the     *)
(* subject only.                                                           *)
(***************************************************************************)
EXTENDS Integers, Sequences, FiniteSets, TLC

VARIABLES
    rule,         \* the route rule last handed to Router._route
    subject,      \* SpecRule: the text the compiled rule is matched against
    compiled,     \* SpecRule: what Router._route made of the rule
    outcome,      \* SpecRule: what matching the subject gave
    supplied,     \* the filters argument of the last Router(...) call
    methodsArg,   \* the methods argument of the last Router.route call
    routers,      \* Application.routers: the routers in registration order
    appFilters,   \* Application.filters: the application-level filters
    extensions,   \* Application.extensions: class name -> instance
    initialized,  \* the initialize(application) calls made, in order
    registered,   \* the instances handed to register_extension, in order
    pc,           \* where the invocation in flight is
    received,     \* the request as the invocation in flight received it
    request,      \* the request of the invocation in flight
    ri,           \* Application.__call__: index of the router being tried
    selected,     \* the route Router.match selected: [router, route]
    fi,           \* index of the filter whose hook runs next
    inner,        \* the request inside the filter-wrapped handler (apply)
    response,     \* the response threaded through the after hooks
    raised,       \* the error the last operation raised, "none" when it returned
    trace         \* the hooks, handlers and matches executed, in order

ruleVars == <<rule, subject, compiled, outcome, supplied, methodsArg>>
appVars  == <<routers, appFilters>>
extVars  == <<extensions, initialized, registered>>
callVars == <<pc, received, request, ri, selected, fi, inner, response, trace>>
vars     == <<ruleVars, appVars, extVars, callVars, raised>>

(***************************************************************************)
(* Characters and texts                                                    *)
(***************************************************************************)
Letters == {"a", "b", "c", "d", "e", "f", "g", "h", "i", "j", "k", "l", "m",
            "n", "o", "p", "q", "r", "s", "t", "u", "v", "w", "x", "y", "z"}

Digits == {"0", "1", "2", "3", "4", "5", "6", "7", "8", "9"}

Chars == Letters \cup Digits \cup {"/", ".", "_", "-", "+", ":", "{", "}"}

\* The value of one decimal digit.
DigitValue(c) ==
    CASE c = "0" -> 0 [] c = "1" -> 1 [] c = "2" -> 2 [] c = "3" -> 3
      [] c = "4" -> 4 [] c = "5" -> 5 [] c = "6" -> 6 [] c = "7" -> 7
      [] c = "8" -> 8 [] c = "9" -> 9

\* str.startswith
StartsWith(s, p) ==
    /\ Len(p) <= Len(s)
    /\ SubSeq(s, 1, Len(p)) = p

\* The index of the first occurrence of p in s at or after i, 0 when none.
RECURSIVE Find(_, _, _)
Find(s, p, i) ==
    IF i + Len(p) - 1 > Len(s) THEN 0
    ELSE IF SubSeq(s, i, i + Len(p) - 1) = p THEN i
    ELSE Find(s, p, i + 1)

\* s.replace(p, '', 1): s without the first occurrence of p.
ReplaceFirst(s, p) ==
    LET at == Find(s, p, 1)
    IN  IF at = 0 THEN s
        ELSE SubSeq(s, 1, at - 1) \o SubSeq(s, at + Len(p), Len(s))

\* src.split(sep): the pieces of src between the occurrences of sep.
RECURSIVE Split(_, _)
Split(src, sep) ==
    LET at == Find(src, <<sep>>, 1)
    IN  IF at = 0 THEN <<src>>
        ELSE <<SubSeq(src, 1, at - 1)>> \o Split(SubSeq(src, at + 1, Len(src)), sep)

(***************************************************************************)
(* Regular expressions.  A pattern is the sequence of the nodes of its     *)
(* text: a character set with a quantifier ("one", "opt" for ?, "plus"     *)
(* for +), the opening and the closing of a named group, the end anchor.   *)
(***************************************************************************)
One(cls)  == [t |-> "set", cls |-> cls, q |-> "one"]
Opt(cls)  == [t |-> "set", cls |-> cls, q |-> "opt"]
Plus(cls) == [t |-> "set", cls |-> cls, q |-> "plus"]
Open(name)  == [t |-> "open", name |-> name]
Close(name) == [t |-> "close", name |-> name]
EndAnchor == [t |-> "end"]

WordChars == Letters \cup Digits \cup {"_"}

\* The type tags, as the text written in a rule.
TagStr   == <<"s", "t", "r">>
TagWord  == <<"w", "o", "r", "d">>
TagAny   == <<"a", "n", "y">>
TagInt   == <<"i", "n", "t">>
TagFloat == <<"f", "l", "o", "a", "t">>

TypeTags == {TagStr, TagWord, TagAny, TagInt, TagFloat}

\* PATTERNS with '[^/]+' for str: one character is enough.
PatternsOneChar(type) ==
    CASE type = TagStr   -> <<Plus(Chars \ {"/"})>>
      [] type = TagWord  -> <<Plus(WordChars)>>
      [] type = TagAny   -> <<Plus(Chars)>>
      [] type = TagInt   -> <<Opt({"+", "-"}), Plus(Digits)>>
      [] type = TagFloat -> <<Opt({"+", "-"}), Plus(Digits), One({"."}), Plus(Digits)>>

\* PATTERNS: type tag -> pattern fragment.
PATTERNS(type) ==
    CASE type = TagStr   -> <<One(Chars \ {"/"}), Plus(Chars)>>
      [] type = TagWord  -> <<Plus(WordChars)>>
      [] type = TagAny   -> <<Plus(Chars)>>
      [] type = TagInt   -> <<Opt({"+", "-"}), Plus(Digits)>>
      [] type = TagFloat -> <<Opt({"+", "-"}), Plus(Digits), One({"."}), Plus(Digits)>>

\* CASTS: type tag -> the type the captured text is converted to.
CASTS(type) ==
    CASE type = TagStr   -> "str"
      [] type = TagWord  -> "str"
      [] type = TagAny   -> "str"
      [] type = TagInt   -> "int"
      [] type = TagFloat -> "float"

(***************************************************************************)
(* The casts: int(text) and float(text) of the text a fragment matched.    *)
(* A float is kept as the decimal it denotes, mant / 10^scale with no      *)
(* trailing zero in the fraction, so that 1.50 and 1.5 are one value and   *)
(* the float 2.0 is not the integer 2.                                     *)
(***************************************************************************)
RECURSIVE DigitsValue(_)
DigitsValue(ds) ==
    IF Len(ds) = 0 THEN 0
    ELSE 10 * DigitsValue(SubSeq(ds, 1, Len(ds) - 1)) + DigitValue(ds[Len(ds)])

Unsigned(v) == IF v[1] \in {"+", "-"} THEN Tail(v) ELSE v

Signed(v, n) == IF v[1] = "-" THEN 0 - n ELSE n

IntCast(v) == Signed(v, DigitsValue(Unsigned(v)))

RECURSIVE StripZeros(_)
StripZeros(ds) ==
    IF Len(ds) > 0 /\ ds[Len(ds)] = "0" THEN StripZeros(SubSeq(ds, 1, Len(ds) - 1))
    ELSE ds

FloatCast(v) ==
    LET u    == Unsigned(v)
        dot  == Find(u, <<".">>, 1)
        frac == StripZeros(SubSeq(u, dot + 1, Len(u)))
    IN  [mant  |-> Signed(v, DigitsValue(SubSeq(u, 1, dot - 1) \o frac)),
         scale |-> Len(frac)]

\* route.casts[k](v)
Cast(c, v) ==
    CASE c = "str"   -> v
      [] c = "int"   -> IntCast(v)
      [] c = "float" -> FloatCast(v)

(***************************************************************************)
(* Matching, as the backtracking matcher of re does it: the nodes are      *)
(* tried left to right, "?" and "+" take as much as they can and give      *)
(* back one character at a time when what follows fails.                   *)
(***************************************************************************)
EmptyMap == [n \in {} |-> 0]

NoMatch == [ok |-> FALSE, caps |-> EmptyMap]

\* The number of characters of s from pos on that are in cls.
RECURSIVE Run(_, _, _)
Run(s, pos, cls) ==
    IF pos <= Len(s) /\ s[pos] \in cls THEN 1 + Run(s, pos + 1, cls) ELSE 0

\* The element of a set of one element.  Only({F(x) : x \in {e}}) is F of
\* the value of e, with e computed once: x is a local variable of the code.
Only(S) == CHOOSE y \in S : TRUE

\* d[k] = v on a dict
DictSet(d, k, v) ==
    [n \in DOMAIN d \cup {k} |-> IF n = k THEN v ELSE d[n]]

RECURSIVE MatchNodes(_, _, _, _, _)
RECURSIVE TryPlus(_, _, _, _, _, _)
MatchNodes(pat, k, s, pos, caps) ==
    IF k > Len(pat) THEN [ok |-> TRUE, caps |-> caps]
    ELSE LET nd == pat[k]
         IN  CASE nd.t = "open" ->
                    MatchNodes(pat, k + 1, s, pos, DictSet(caps, nd.name, <<pos, pos>>))
               [] nd.t = "close" ->
                    MatchNodes(pat, k + 1, s, pos,
                               DictSet(caps, nd.name, <<caps[nd.name][1], pos>>))
               [] nd.t = "end" ->
                    IF pos = Len(s) + 1 THEN MatchNodes(pat, k + 1, s, pos, caps)
                    ELSE NoMatch
               [] nd.t = "set" /\ nd.q = "one" ->
                    IF pos <= Len(s) /\ s[pos] \in nd.cls
                    THEN MatchNodes(pat, k + 1, s, pos + 1, caps)
                    ELSE NoMatch
               [] nd.t = "set" /\ nd.q = "opt" ->
                    Only({IF with.ok THEN with
                          ELSE MatchNodes(pat, k + 1, s, pos, caps) :
                          with \in {IF pos <= Len(s) /\ s[pos] \in nd.cls
                                    THEN MatchNodes(pat, k + 1, s, pos + 1, caps)
                                    ELSE NoMatch}})
               [] nd.t = "set" /\ nd.q = "plus" ->
                    TryPlus(pat, k, s, pos, caps, Run(s, pos, nd.cls))

TryPlus(pat, k, s, pos, caps, n) ==
    IF n < 1 THEN NoMatch
    ELSE Only({IF r.ok THEN r ELSE TryPlus(pat, k, s, pos, caps, n - 1) :
               r \in {MatchNodes(pat, k + 1, s, pos + n, caps)}})

\* pattern.match(s): the match object of s from its beginning, with its
\* groupdict(); ok is FALSE for None.
ReMatch(pat, s) ==
    Only({Only({[ok   |-> r.ok,
                 dict |-> [n \in DOMAIN r.caps |->
                              SubSeq(subj, r.caps[n][1], r.caps[n][2] - 1)]] :
                r \in {MatchNodes(pat, 1, subj, 1, EmptyMap)}}) :
          subj \in {s}})

(***************************************************************************)
(* The route rule compiler                                                 *)
(***************************************************************************)
\* A character of the rule copied into the pattern: "." is the wildcard of
\* re, every other character of Chars outside the braces stands for itself.
Verbatim(c) == IF c = "." THEN One(Chars) ELSE One({c})

\* _spec_parse without its two failures: a tag that PATTERNS does not hold,
\* or what follows a second ":", is read as the type str.
SpecParseLenient(src) ==
    LET tmp  == Split(src, ":")
        name == tmp[1]
        type == IF Len(tmp) >= 2 /\ tmp[2] \in TypeTags THEN tmp[2] ELSE TagStr
    IN  [err     |-> "none",
         name    |-> name,
         pattern |-> <<Open(name)>> \o PATTERNS(type) \o <<Close(name)>>,
         cast    |-> CASTS(type)]

\* Router._spec_parse: the name, the pattern and the cast of one "{...}".
SpecParse(src) ==
    LET tmp  == Split(src, ":")
        name == tmp[1]
        type == IF Len(tmp) = 2 THEN tmp[2] ELSE TagStr
    IN  IF Len(tmp) > 2 THEN [err |-> "error pattern"]
        ELSE IF type \notin TypeTags THEN [err |-> "KeyError"]
        ELSE [err     |-> "none",
              name    |-> name,
              pattern |-> <<Open(name)>> \o PATTERNS(type) \o <<Close(name)>>,
              cast    |-> CASTS(type)]

\* Router._rule_parse, from character i of the rule on.
RECURSIVE RuleParseFrom(_, _, _, _, _, _)
RuleParseFrom(r, i, pattern, spec, casts, is_spec) ==
    IF i > Len(r)
    THEN [err |-> "none", pattern |-> pattern \o <<EndAnchor>>, casts |-> casts]
    ELSE LET c == r[i]
         IN  IF c = "{" /\ ~is_spec
             THEN RuleParseFrom(r, i + 1, pattern, spec, casts, TRUE)
             ELSE IF c = "}" /\ is_spec
             THEN LET sp == SpecParse(spec)
                  IN  IF sp.err # "none"
                      THEN [err |-> sp.err, pattern |-> <<>>, casts |-> EmptyMap]
                      ELSE RuleParseFrom(r, i + 1, pattern \o sp.pattern, <<>>,
                                         DictSet(casts, sp.name, sp.cast), FALSE)
             ELSE IF is_spec
             THEN RuleParseFrom(r, i + 1, pattern, Append(spec, c), casts, TRUE)
             ELSE RuleParseFrom(r, i + 1, Append(pattern, Verbatim(c)), spec, casts, FALSE)

RuleParse(r) == RuleParseFrom(r, 1, <<>>, <<>>, EmptyMap, FALSE)

\* The group names of a pattern, in order.
GroupNames(pattern) ==
    LET opens == SelectSeq(pattern, LAMBDA nd : nd.t = "open")
    IN  [i \in 1..Len(opens) |-> opens[i].name]

\* A name re accepts for a group: an identifier.
IsIdentifier(name) ==
    /\ Len(name) > 0
    /\ name[1] \notin Digits
    /\ \A i \in 1..Len(name) : name[i] \in WordChars

\* re.compile(pattern): refuses a group name that is no identifier and a
\* group name used twice.
ReCompile(pattern) ==
    LET names == GroupNames(pattern)
    IN  IF \E i \in 1..Len(names) : ~IsIdentifier(names[i])
        THEN [err |-> "re.error: bad character in group name"]
        ELSE IF \E i, j \in 1..Len(names) : i < j /\ names[i] = names[j]
        THEN [err |-> "re.error: redefinition of group name"]
        ELSE [err |-> "none", pattern |-> pattern]

\* The Route that Router._route appends, or the error it raises.
MakeRoute(r, methods, handler) ==
    LET parsed == RuleParse(r)
        re     == IF parsed.err = "none" THEN ReCompile(parsed.pattern)
                  ELSE [err |-> parsed.err]
    IN  IF re.err # "none" THEN [err |-> re.err]
        ELSE [err   |-> "none",
              route |-> [pattern |-> re.pattern,
                         methods |-> methods,
                         casts   |-> parsed.casts,
                         handler |-> handler]]

(***************************************************************************)
(* Filters.  A filter is an object with the two hooks of class Filter; a   *)
(* hook is the default of the class ("default": it returns what it got)    *)
(* or a function of the user ("hook").  A user's before hook returns a     *)
(* new request, the one it got with its own mark added; a user's after     *)
(* hook returns a new response, the one it got with its own mark added.    *)
(* A hook of the user may also raise ("raise").  cls tells the class of    *)
(* the object: "Filter" for an instance of Filter or of a class derived    *)
(* from it.                                                                *)
(***************************************************************************)
NewFilter(id, before, after) ==
    [cls |-> "Filter", id |-> id, before |-> before, after |-> after]

\* An object with the two hooks whose class does not derive from Filter.
OtherObject(id) ==
    [cls |-> "object", id |-> id, before |-> "hook", after |-> "hook"]

\* isinstance(fl, Filter)
IsFilter(fl) == fl.cls = "Filter"

\* fl.before_request(ctx, request)
BeforeHook(fl, req) ==
    IF fl.before = "default" THEN req
    ELSE [req EXCEPT !.marks = Append(@, fl.id)]

\* fl.after_request(ctx, request, response)
AfterHook(fl, req, res) ==
    IF fl.after = "default" THEN res
    ELSE [res EXCEPT !.marks = Append(@, fl.id)]

\* The error a hook of the filter fl raises.
HookError(fl) == "error of " \o fl.id

\* The business handlers that raise, and the error one raises.
BrokenHandlers == {"bad1"}

HandlerError(h) == "error of " \o h

\* handler(ctx, request): the response of the business handler, which
\* tells the handler, the request it received and the parameters it saw.
HandlerCall(h, req) ==
    [by |-> h, saw |-> req.marks, args |-> req.args, marks |-> <<>>]

NoResponse == [by |-> "", saw |-> <<>>, args |-> EmptyMap, marks |-> <<>>]

(***************************************************************************)
(* The router                                                              *)
(***************************************************************************)
NoDomain == [set |-> FALSE, re |-> <<>>]

\* A pattern that matches the text lit and nothing else from its beginning
\* on; the domain pattern of a router is written so.
Literal(lit) == [i \in 1..Len(lit) |-> One({lit[i]})]

DomainRe(nodes) == [set |-> TRUE, re |-> nodes]

\* The loop of Router.__init__ without the isinstance test: every element
\* of the argument is appended.
InitFiltersUnchecked(filters, i, acc) ==
    [err |-> "none", filters |-> acc \o SubSeq(filters, i, Len(filters))]

\* The loop of Router.__init__ over the filters argument, from element i
\* on: self.filters, or the error raised at the first element that is no
\* Filter.
RECURSIVE InitFilters(_, _, _)
InitFilters(filters, i, acc) ==
    IF i > Len(filters) THEN [err |-> "none", filters |-> acc]
    ELSE IF IsFilter(filters[i])
    THEN InitFilters(filters, i + 1, Append(acc, filters[i]))
    ELSE [err |-> "Exception: is not a Filter"]

\* Router(prefix, domain, filters): the router, or the error __init__
\* raises.
RouterInit(prefix, domain, filters) ==
    LET fs == InitFilters(filters, 1, <<>>)
    IN  IF fs.err # "none" THEN [err |-> fs.err]
        ELSE [err    |-> "none",
              router |-> [routes |-> <<>>, domain |-> domain, prefix |-> prefix,
                          filters |-> fs.filters]]

\* Router.__init__ on an argument it accepts
NewRouter(prefix, domain, filters) == RouterInit(prefix, domain, filters).router

\* ('GET', 'POST', 'PUT', 'PATCH', 'DELETE', 'OPTION'), the methods of
\* Router.route when none are given.
DefaultMethods == {"GET", "POST", "PUT", "PATCH", "DELETE", "OPTION"}

\* The methods argument of Router.route: None, or the methods given.
NoMethods == [given |-> FALSE, set |-> {}]

Methods(set) == [given |-> TRUE, set |-> set]

\* if methods is None: methods = (...)
MethodsOrDefault(methods) == IF methods.given THEN methods.set ELSE DefaultMethods

\* The test Router.match makes of one route, without the test of the
\* method.
RouteMatchAnyMethod(rt, route, req) ==
    ReMatch(route.pattern, ReplaceFirst(req.path, rt.prefix))

\* _domain_match with re.search for re.match: the domain pattern may
\* match anywhere in the host.
DomainSearch(rt, req) ==
    \/ ~rt.domain.set
    \/ \E i \in 1..Len(req.host) + 1 :
          ReMatch(rt.domain.re, SubSeq(req.host, i, Len(req.host))).ok

\* Router._domain_match
DomainMatch(rt, req) == ~rt.domain.set \/ ReMatch(rt.domain.re, req.host).ok

\* Router._prefix_match
PrefixMatch(rt, req) == StartsWith(req.path, rt.prefix)

\* The test Router.match makes of one route.
RouteMatch(rt, route, req) ==
    IF req.method \in route.methods
    THEN ReMatch(route.pattern, ReplaceFirst(req.path, rt.prefix))
    ELSE [ok |-> FALSE, dict |-> EmptyMap]

\* The loop of Router.match without its return: the last route that
\* matches is the one selected.
ScanRoutesLast(rt, req, i) ==
    LET hits == {j \in i..Len(rt.routes) : RouteMatch(rt, rt.routes[j], req).ok}
    IN  IF hits = {} THEN 0 ELSE CHOOSE j \in hits : \A k \in hits : k <= j

\* The loop of Router.match over self.routes from route i on: the index of
\* the first route that matches, 0 when none does.
RECURSIVE ScanRoutes(_, _, _)
ScanRoutes(rt, req, i) ==
    IF i > Len(rt.routes) THEN 0
    ELSE IF RouteMatch(rt, rt.routes[i], req).ok THEN i
    ELSE ScanRoutes(rt, req, i + 1)

\* Router.match without request.args = {}: the captures are added to the
\* parameters the request already carried.
MatchArgsKeep(rt, route, req) ==
    LET m == RouteMatch(rt, route, req)
    IN  [k \in DOMAIN m.dict \cup DOMAIN req.args |->
            IF k \in DOMAIN m.dict THEN Cast(route.casts[k], m.dict[k])
            ELSE req.args[k]]

\* request.args as Router.match sets it for the route it selected.
MatchArgs(rt, route, req) ==
    Only({[k \in DOMAIN m.dict |-> Cast(route.casts[k], m.dict[k])] :
          m \in {RouteMatch(rt, route, req)}})

\* Router.match with request.args = {} before the tests instead of after
\* the match of a route: a call that returns None has emptied the
\* parameters.
RouterMatchClears(rt, req) ==
    IF DomainMatch(rt, req) /\ PrefixMatch(rt, req)
    THEN Only({IF j = 0
               THEN [route    |-> 0,
                     request  |-> [req EXCEPT !.hasArgs = TRUE, !.args = EmptyMap],
                     examined |-> Len(rt.routes)]
               ELSE [route    |-> j,
                     request  |-> [req EXCEPT !.hasArgs = TRUE,
                                              !.args = MatchArgs(rt, rt.routes[j], req)],
                     examined |-> j] :
               j \in {ScanRoutes(rt, req, 1)}})
    ELSE [route    |-> 0,
          request  |-> [req EXCEPT !.hasArgs = TRUE, !.args = EmptyMap],
          examined |-> 0]

\* Router.match: the route selected (0: the result is None), the request
\* as the call leaves it, and the number of routes the loop examined.
RouterMatch(rt, req) ==
    IF DomainMatch(rt, req) /\ PrefixMatch(rt, req)
    THEN Only({IF j = 0
               THEN [route |-> 0, request |-> req, examined |-> Len(rt.routes)]
               ELSE [route    |-> j,
                     request  |-> [req EXCEPT !.hasArgs = TRUE,
                                              !.args = MatchArgs(rt, rt.routes[j], req)],
                     examined |-> j] :
               j \in {ScanRoutes(rt, req, 1)}})
    ELSE [route |-> 0, request |-> req, examined |-> 0]

(***************************************************************************)
(* The events of trace                                                     *)
(***************************************************************************)
\* ev: "match", "before", "handler" or "after"; scope: "app" or "router";
\* idx: the place in its list of the router or filter, of the route for a
\* handler; who: the filter or the handler; n: the routes a match examined.
Event(ev, scope, idx, who, n) ==
    [ev |-> ev, scope |-> scope, idx |-> idx, who |-> who, n |-> n]

NoRequest ==
    [method |-> "", path |-> <<>>, host |-> <<>>, hasArgs |-> FALSE,
     args |-> EmptyMap, marks |-> <<>>]

NoSelection == [router |-> 0, route |-> 0]

(***************************************************************************)
(* Bounds and inputs                                                       *)
(***************************************************************************)
MaxRoutes == 2
MaxFilters == 2
MaxRouters == 3
MaxRegistrations == 3
MaxConstructed == 2

\* The function a route is registered for: each use of the decorator
\* decorates a function of its own.
HandlerName(tag, k) == tag \o ToString(k)

Items == <<"/", "i", "t", "e", "m", "s", "/">>

Prefixes == {<<>>, <<"/", "a">>}

Domains == {NoDomain, DomainRe(Literal(<<"a", "b">>))}

Hosts == {<<"a", "b", "c">>, <<"c", "a", "b">>}

RouterRules ==
    {<<"/", "{", "i", "d", ":", "i", "n", "t", "}">>,
     <<"/", "{", "n", "}">>,
     <<"/", "{", "k", ":", "w", "o", "r", "d", "}", "/", "{", "i", "d", ":", "i", "n", "t", "}">>,
     <<"/", "{", "a", ":", "i", "n", "t", ":", "x", "}">>,
     <<"/", "{", "u", ":", "u", "u", "i", "d", "}">>,
     <<"/", "{", "n", "}", "/", "{", "n", ":", "i", "n", "t", "}">>}

MethodChoices == {NoMethods, Methods({"POST", "HEAD"})}

Paths == {<<"/", "4", "2">>, <<"/", "a", "/", "4", "2">>, <<"/", "a", "b">>}

StaleArgs == [n \in {<<"o", "l", "d">>} |-> <<"x">>]

Requests ==
    {[method |-> m, path |-> p, host |-> h, hasArgs |-> st,
      args |-> IF st THEN StaleArgs ELSE EmptyMap, marks |-> <<>>] :
        m \in {"GET", "POST"}, p \in Paths, h \in Hosts, st \in BOOLEAN}

\* The requests a router is matched against on its own: those of the
\* application and requests of the methods HEAD and OPTIONS.
RouterRequests ==
    Requests \cup
    {[method |-> m, path |-> p, host |-> <<"a", "b", "c">>, hasArgs |-> FALSE,
      args |-> EmptyMap, marks |-> <<>>] : m \in {"HEAD", "OPTIONS"}, p \in Paths}

FilterChoices ==
    {NewFilter("f1", "hook", "hook"), NewFilter("f2", "default", "default")}

HookFunctions == {"g1"}

\* The objects a program puts into the filters argument of Router(...),
\* and the arguments made of them.
CtorObjects == FilterChoices \cup {OtherObject("x1")}

FilterArgs == UNION {[1..n -> CtorObjects] : n \in 0..MaxFilters}

(***************************************************************************)
(* The operations of a router, on router i of the application              *)
(***************************************************************************)
\* Router(filters=fs): the router joins the routers of the program when
\* __init__ returns.
RouterNew(fs) ==
    /\ pc = "idle"
    /\ Len(routers) < MaxConstructed
    /\ supplied' = fs
    /\ LET made == RouterInit(<<>>, NoDomain, fs)
       IN  IF made.err # "none"
           THEN /\ raised' = made.err
                /\ UNCHANGED routers
           ELSE /\ raised' = "none"
                /\ routers' = Append(routers, made.router)
    /\ UNCHANGED <<rule, subject, compiled, outcome, methodsArg, appFilters, extVars, callVars>>

\* Router.route(rule, methods)(fn): Router._route.  rule keeps the rule the
\* call was given.
Route(i, r, methods) ==
    /\ pc = "idle"
    /\ i \in 1..Len(routers)
    /\ Len(routers[i].routes) < MaxRoutes
    /\ rule' = r
    /\ methodsArg' = methods
    /\ LET made == MakeRoute(r, MethodsOrDefault(methods),
                             HandlerName("fn", Len(routers[i].routes) + 1))
       IN  IF made.err # "none"
           THEN /\ raised' = made.err
                /\ UNCHANGED routers
           ELSE /\ raised' = "none"
                /\ routers' = [routers EXCEPT ![i].routes = Append(@, made.route)]
    /\ UNCHANGED <<subject, compiled, outcome, supplied, appFilters, extVars, callVars>>

\* Router.add_filter(filter)
RouterAddFilter(i, fl) ==
    /\ pc \in {"idle", "matched"}
    /\ i \in 1..Len(routers)
    /\ Len(routers[i].filters) < MaxFilters
    /\ routers' = [routers EXCEPT ![i].filters = Append(@, fl)]
    /\ raised' = "none"
    /\ UNCHANGED <<ruleVars, appFilters, extVars, callVars>>

\* Router.before_request(fn)
RouterBeforeRequest(i, fn) == RouterAddFilter(i, NewFilter(fn, "hook", "default"))

\* Router.after_request(fn)
RouterAfterRequest(i, fn) == RouterAddFilter(i, NewFilter(fn, "default", "hook"))

\* handler = router.match(request), on router 1, by a caller other than
\* the application
Match(req) ==
    /\ pc = "idle"
    /\ Len(routers) >= 1
    /\ received' = req
    /\ \E m \in {RouterMatch(routers[1], req)} :
           /\ request' = m.request
           /\ selected' = IF m.route = 0 THEN NoSelection
                          ELSE [router |-> 1, route |-> m.route]
           /\ pc' = IF m.route = 0 THEN "absent" ELSE "matched"
           /\ trace' = Append(trace, Event("match", "router", 1, "", m.examined))
    /\ raised' = "none"
    /\ UNCHANGED <<ruleVars, appVars, extVars, ri, fi, inner, response>>

\* handler(ctx, request), on the handler Match returned: apply is entered
Invoke ==
    /\ pc = "matched"
    /\ pc' = "rtBefore"
    /\ inner' = request
    /\ fi' = 1
    /\ UNCHANGED <<ruleVars, appVars, extVars, received, request, ri, selected, response, trace, raised>>

(***************************************************************************)
(* The filter-wrapped handler: apply of Router._apply_filter, one hook or  *)
(* handler a step                                                          *)
(***************************************************************************)
SelectedRouter == routers[selected.router]

\* The places of the list self.filters of n filters in the order
\* reversed(self.filters) visits them, in apply.
RouterAfterOrderForward(n) == [k \in 1..n |-> k]

RouterAfterOrder(n) == [k \in 1..n |-> n + 1 - k]

SelectedRoute == SelectedRouter.routes[selected.route]

\* The before loop of apply with every hook handed the request apply was
\* called with, not the one the hook before it returned.
RtBeforeUnthreaded ==
    /\ pc = "rtBefore"
    /\ IF fi <= Len(SelectedRouter.filters)
       THEN LET fl == SelectedRouter.filters[fi]
            IN  /\ inner' = BeforeHook(fl, request)
                /\ trace' = Append(trace, Event("before", "router", fi, fl.id, 0))
                /\ fi' = fi + 1
                /\ pc' = pc
       ELSE /\ pc' = "handler"
            /\ UNCHANGED <<inner, trace, fi>>
    /\ UNCHANGED <<ruleVars, appVars, extVars, received, request, ri, selected, response, raised>>

\* for fl in self.filters: request = fl.before_request(ctx, request).
\* apply has no try: an error of the hook ends the invocation.
RtBefore ==
    /\ pc = "rtBefore"
    /\ IF fi <= Len(SelectedRouter.filters)
       THEN LET fl == SelectedRouter.filters[fi]
            IN  /\ trace' = Append(trace, Event("before", "router", fi, fl.id, 0))
                /\ IF fl.before = "raise"
                   THEN /\ pc' = "failed"
                        /\ raised' = HookError(fl)
                        /\ UNCHANGED <<inner, fi>>
                   ELSE /\ inner' = BeforeHook(fl, inner)
                        /\ fi' = fi + 1
                        /\ UNCHANGED <<pc, raised>>
       ELSE /\ pc' = "handler"
            /\ UNCHANGED <<inner, trace, fi, raised>>
    /\ UNCHANGED <<ruleVars, appVars, extVars, received, request, ri, selected, response>>

\* The handler call of apply inside a try that swallows the error: the
\* after hooks run on an empty response.
HandlerSwallowsError ==
    /\ pc = "handler"
    /\ response' = IF SelectedRoute.handler \in BrokenHandlers THEN NoResponse
                   ELSE HandlerCall(SelectedRoute.handler, inner)
    /\ trace' = Append(trace, Event("handler", "router", selected.route,
                                    SelectedRoute.handler, 0))
    /\ fi' = 1
    /\ pc' = "rtAfter"
    /\ UNCHANGED <<ruleVars, appVars, extVars, received, request, ri, selected, inner, raised>>

\* response = handler(ctx, request)
Handler ==
    /\ pc = "handler"
    /\ trace' = Append(trace, Event("handler", "router", selected.route,
                                    SelectedRoute.handler, 0))
    /\ IF SelectedRoute.handler \in BrokenHandlers
       THEN /\ pc' = "failed"
            /\ raised' = HandlerError(SelectedRoute.handler)
            /\ UNCHANGED <<response, fi>>
       ELSE /\ response' = HandlerCall(SelectedRoute.handler, inner)
            /\ fi' = 1
            /\ pc' = "rtAfter"
            /\ UNCHANGED raised
    /\ UNCHANGED <<ruleVars, appVars, extVars, received, request, ri, selected, inner>>

\* for fl in reversed(self.filters): response = fl.after_request(...);
\* return response
RtAfter ==
    /\ pc = "rtAfter"
    /\ IF fi <= Len(SelectedRouter.filters)
       THEN LET at == RouterAfterOrder(Len(SelectedRouter.filters))[fi]
                fl == SelectedRouter.filters[at]
            IN  /\ trace' = Append(trace, Event("after", "router", at, fl.id, 0))
                /\ IF fl.after = "raise"
                   THEN /\ pc' = "failed"
                        /\ raised' = HookError(fl)
                        /\ UNCHANGED <<response, fi>>
                   ELSE /\ response' = AfterHook(fl, inner, response)
                        /\ fi' = fi + 1
                        /\ UNCHANGED <<pc, raised>>
       ELSE /\ pc' = IF ri = 0 THEN "returned" ELSE "appAfter"
            /\ fi' = 1
            /\ UNCHANGED <<response, trace, raised>>
    /\ UNCHANGED <<ruleVars, appVars, extVars, received, request, ri, selected, inner>>

(***************************************************************************)
(* The application                                                         *)
(***************************************************************************)
\* A router as the program builds it before it is added: Router(...) and
\* one use of its route decorator per rule.
WithRoute(rt, r, methods, handler) ==
    [rt EXCEPT !.routes = Append(@, MakeRoute(r, methods, handler).route)]

RouterA ==
    WithRoute(NewRouter(<<"/", "a">>, NoDomain, <<NewFilter("ra", "hook", "hook")>>),
              <<"/", "{", "i", "d", ":", "i", "n", "t", "}">>, DefaultMethods, "a1")

RouterB ==
    WithRoute(NewRouter(<<>>, NoDomain,
                        <<NewFilter("rb", "hook", "hook"), NewFilter("rc", "hook", "hook")>>),
              <<"/", "{", "n", "}">>, {"POST"}, "b1")

RouterC ==
    WithRoute(NewRouter(<<>>, DomainRe(Literal(<<"a", "b">>)), <<>>),
              <<"/", "{", "i", "d", ":", "i", "n", "t", "}">>, DefaultMethods, "c1")

RouterCatalogue == {RouterA, RouterB, RouterC}

\* The places of the list self.filters of n filters in the order
\* reversed(self.filters) visits them, in Application.__call__.
AppAfterOrderForward(n) == [k \in 1..n |-> k]

AppAfterOrder(n) == [k \in 1..n |-> n + 1 - k]

\* Application.add_router(router)
AddRouter(rt) ==
    /\ pc = "idle"
    /\ Len(routers) < MaxRouters
    /\ routers' = Append(routers, rt)
    /\ raised' = "none"
    /\ UNCHANGED <<ruleVars, appFilters, extVars, callVars>>

\* Application.add_filter(filter)
AppAddFilter(fl) ==
    /\ pc = "idle"
    /\ Len(appFilters) < MaxFilters
    /\ appFilters' = Append(appFilters, fl)
    /\ raised' = "none"
    /\ UNCHANGED <<ruleVars, routers, extVars, callVars>>

\* register_extension without the isinstance test.
RegisterExtensionUnchecked(inst) ==
    /\ pc = "idle"
    /\ Len(registered) < MaxRegistrations
    /\ registered' = Append(registered, inst)
    /\ initialized' = Append(initialized, inst.obj)
    /\ extensions' = DictSet(extensions, inst.name, inst)
    /\ raised' = "none"
    /\ UNCHANGED <<ruleVars, appVars, callVars>>

\* Application.register_extension(instance)
RegisterExtension(inst) ==
    /\ pc = "idle"
    /\ Len(registered) < MaxRegistrations
    /\ registered' = Append(registered, inst)
    /\ IF inst.isExtension
       THEN /\ initialized' = Append(initialized, inst.obj)
            /\ extensions' = DictSet(extensions, inst.name, inst)
       ELSE UNCHANGED <<initialized, extensions>>
    /\ raised' = "none"
    /\ UNCHANGED <<ruleVars, appVars, callVars>>

\* Application.__call__(request) is entered
Call(req) ==
    /\ pc = "idle"
    /\ pc' = "search"
    /\ received' = req
    /\ request' = req
    /\ ri' = 1
    /\ raised' = "none"
    /\ UNCHANGED <<ruleVars, appVars, extVars, selected, fi, inner, response, trace>>

\* Search with the raise inside the loop: the first router that does not
\* match ends the search.
SearchStopsEarly ==
    /\ pc = "search"
    /\ IF ri > Len(routers)
       THEN /\ pc' = "notfound"
            /\ raised' = "HTTPNotFound: no handler match"
            /\ UNCHANGED <<request, ri, selected, fi, trace>>
       ELSE \E m \in {RouterMatch(routers[ri], request)} :
                /\ request' = m.request
                /\ trace' = Append(trace, Event("match", "router", ri, "", m.examined))
                /\ IF m.route = 0
                   THEN /\ pc' = "notfound"
                        /\ raised' = "HTTPNotFound: no handler match"
                        /\ UNCHANGED <<ri, selected, fi>>
                   ELSE /\ selected' = [router |-> ri, route |-> m.route]
                        /\ pc' = "appBefore"
                        /\ fi' = 1
                        /\ ri' = ri
                        /\ raised' = raised
    /\ UNCHANGED <<ruleVars, appVars, extVars, received, inner, response>>

\* Search without the return in the loop: every router is tried and the
\* last one that matches is dispatched to.
SearchLastWins ==
    /\ pc = "search"
    /\ IF ri > Len(routers)
       THEN /\ pc' = IF selected = NoSelection THEN "notfound" ELSE "appBefore"
            /\ raised' = IF selected = NoSelection
                          THEN "HTTPNotFound: no handler match" ELSE raised
            /\ fi' = 1
            /\ UNCHANGED <<request, ri, selected, trace>>
       ELSE \E m \in {RouterMatch(routers[ri], request)} :
                /\ request' = m.request
                /\ trace' = Append(trace, Event("match", "router", ri, "", m.examined))
                /\ raised' = raised
                /\ ri' = ri + 1
                /\ selected' = IF m.route = 0 THEN selected
                               ELSE [router |-> ri, route |-> m.route]
                /\ UNCHANGED <<pc, fi>>
    /\ UNCHANGED <<ruleVars, appVars, extVars, received, inner, response>>

\* Search that starts no raise when the routers are exhausted: the
\* invocation stays in its search and never returns.
SearchSpins ==
    /\ pc = "search"
    /\ IF ri > Len(routers)
       THEN UNCHANGED <<pc, raised, request, ri, selected, fi, trace>>
       ELSE \E m \in {RouterMatch(routers[ri], request)} :
                /\ request' = m.request
                /\ trace' = Append(trace, Event("match", "router", ri, "", m.examined))
                /\ raised' = raised
                /\ IF m.route = 0
                   THEN /\ ri' = ri + 1
                        /\ UNCHANGED <<pc, selected, fi>>
                   ELSE /\ selected' = [router |-> ri, route |-> m.route]
                        /\ pc' = "appBefore"
                        /\ fi' = 1
                        /\ ri' = ri
    /\ UNCHANGED <<ruleVars, appVars, extVars, received, inner, response>>

\* for router in self.routers: handler = router.match(request) ...;
\* raise HTTPNotFound(detail='no handler match')
Search ==
    /\ pc = "search"
    /\ IF ri > Len(routers)
       THEN /\ pc' = "notfound"
            /\ raised' = "HTTPNotFound: no handler match"
            /\ UNCHANGED <<request, ri, selected, fi, trace>>
       ELSE \E m \in {RouterMatch(routers[ri], request)} :
                /\ request' = m.request
                /\ trace' = Append(trace, Event("match", "router", ri, "", m.examined))
                /\ raised' = raised
                /\ IF m.route = 0
                   THEN /\ ri' = ri + 1
                        /\ UNCHANGED <<pc, selected, fi>>
                   ELSE /\ selected' = [router |-> ri, route |-> m.route]
                        /\ pc' = "appBefore"
                        /\ fi' = 1
                        /\ ri' = ri
    /\ UNCHANGED <<ruleVars, appVars, extVars, received, inner, response>>

\* for fl in self.filters: request = fl.before_request(self, request);
\* then handler(self, request) is entered
AppBefore ==
    /\ pc = "appBefore"
    /\ IF fi <= Len(appFilters)
       THEN LET fl == appFilters[fi]
            IN  /\ trace' = Append(trace, Event("before", "app", fi, fl.id, 0))
                /\ IF fl.before = "raise"
                   THEN /\ pc' = "failed"
                        /\ raised' = HookError(fl)
                        /\ UNCHANGED <<request, fi, inner>>
                   ELSE /\ request' = BeforeHook(fl, request)
                        /\ fi' = fi + 1
                        /\ UNCHANGED <<pc, inner, raised>>
       ELSE /\ pc' = "rtBefore"
            /\ inner' = request
            /\ fi' = 1
            /\ UNCHANGED <<request, trace, raised>>
    /\ UNCHANGED <<ruleVars, appVars, extVars, received, ri, selected, response>>

\* for fl in reversed(self.filters): res = fl.after_request(self, request, res);
\* return res
AppAfter ==
    /\ pc = "appAfter"
    /\ IF fi <= Len(appFilters)
       THEN LET at == AppAfterOrder(Len(appFilters))[fi]
                fl == appFilters[at]
            IN  /\ trace' = Append(trace, Event("after", "app", at, fl.id, 0))
                /\ IF fl.after = "raise"
                   THEN /\ pc' = "failed"
                        /\ raised' = HookError(fl)
                        /\ UNCHANGED <<response, fi>>
                   ELSE /\ response' = AfterHook(fl, request, response)
                        /\ fi' = fi + 1
                        /\ UNCHANGED <<pc, raised>>
       ELSE /\ pc' = "responded"
            /\ UNCHANGED <<response, trace, fi, raised>>
    /\ UNCHANGED <<ruleVars, appVars, extVars, received, request, ri, selected, inner>>

\* Filters with a hook that raises, and routers that hold such a filter or
\* a handler that raises.
FailsBefore == NewFilter("q1", "raise", "hook")

FailsAfter == NewFilter("q2", "hook", "raise")

RouterQ1 ==
    WithRoute(NewRouter(<<>>, NoDomain,
                        <<NewFilter("f1", "hook", "hook"), FailsBefore,
                          NewFilter("f3", "hook", "hook")>>),
              <<"/", "{", "i", "d", ":", "i", "n", "t", "}">>, DefaultMethods, "h1")

RouterQ2 ==
    WithRoute(NewRouter(<<>>, NoDomain,
                        <<NewFilter("f1", "hook", "hook"), FailsAfter,
                          NewFilter("f3", "hook", "hook")>>),
              <<"/", "{", "i", "d", ":", "i", "n", "t", "}">>, DefaultMethods, "h2")

RouterH ==
    WithRoute(NewRouter(<<>>, NoDomain, <<NewFilter("f1", "hook", "hook")>>),
              <<"/", "{", "i", "d", ":", "i", "n", "t", "}">>, DefaultMethods, "bad1")

\* The router lists and the filter lists of the applications that serve.
ServeRouterLists ==
    {<<>>, <<RouterB, RouterA>>, <<RouterA, RouterB, RouterC>>,
     <<RouterA, RouterQ1, RouterC>>, <<RouterQ2, RouterC>>, <<RouterB, RouterH, RouterC>>}

ServeFilterLists ==
    {<<>>,
     <<NewFilter("f1", "hook", "hook"), NewFilter("f2", "default", "default")>>,
     <<NewFilter("f1", "hook", "hook"), FailsBefore, NewFilter("f3", "hook", "hook")>>,
     <<NewFilter("f1", "hook", "hook"), FailsAfter, NewFilter("f3", "hook", "hook")>>}

\* The instances handed to register_extension.  cls is the class of the
\* instance, name the __name__ of that class (two classes of two modules
\* may bear one name), isExtension whether the class derives from
\* Extension.
ExtInstances ==
    {[obj |-> "cache1", cls |-> "plugins.Cache", name |-> "Cache", isExtension |-> TRUE],
     [obj |-> "cache2", cls |-> "plugins.Cache", name |-> "Cache", isExtension |-> TRUE],
     [obj |-> "cache3", cls |-> "vendor.Cache", name |-> "Cache", isExtension |-> TRUE],
     [obj |-> "db1", cls |-> "plugins.Db", name |-> "Db", isExtension |-> TRUE],
     [obj |-> "plain1", cls |-> "plugins.Plain", name |-> "Plain", isExtension |-> FALSE]}

(***************************************************************************)
(* The rule compiler and the matcher on their own                          *)
(***************************************************************************)
MaxLen == 3

ValueChars == {"a", "/", "4", ".", "-"}

Values == UNION {[1..n -> ValueChars] : n \in 0..MaxLen}

Subjects ==
    {Items \o v : v \in Values} \cup {Items \o <<"s", "o", "c", "k", "s">>}

RuleInputs ==
    {Items \o <<"{", "n", "a", "m", "e", "}">>,
     Items \o <<"{", "n", "a", "m", "e", ":", "s", "t", "r", "}">>,
     Items \o <<"{", "n", "a", "m", "e", ":", "w", "o", "r", "d", "}">>,
     Items \o <<"{", "i", "d", ":", "i", "n", "t", "}">>,
     Items \o <<"{", "x", ":", "f", "l", "o", "a", "t", "}">>,
     Items \o <<"{", "p", ":", "a", "n", "y", "}">>}

Pending == [err |-> "pending"]

NoOutcome == [done |-> FALSE, ok |-> FALSE, args |-> EmptyMap]

\* Router._route(rule, methods, handler)
Compile ==
    /\ compiled = Pending
    /\ compiled' = MakeRoute(rule, DefaultMethods, "fn1")
    /\ UNCHANGED <<rule, subject, outcome, supplied, methodsArg, appVars, extVars, callVars, raised>>

\* m = route.pattern.match(subject) and the casts of Router.match
MatchSubject ==
    /\ compiled.err = "none"
    /\ ~outcome.done
    /\ LET m == ReMatch(compiled.route.pattern, subject)
       IN  outcome' = [done |-> TRUE,
                       ok   |-> m.ok,
                       args |-> [k \in DOMAIN m.dict |->
                                    Cast(compiled.route.casts[k], m.dict[k])]]
    /\ UNCHANGED <<rule, subject, compiled, supplied, methodsArg, appVars, extVars, callVars, raised>>

(***************************************************************************)
(* The specifications                                                      *)
(***************************************************************************)
IdleRule ==
    /\ rule = <<>>
    /\ subject = <<>>
    /\ compiled = Pending
    /\ outcome = NoOutcome
    /\ supplied = <<>>
    /\ methodsArg = NoMethods

IdleExt ==
    /\ extensions = EmptyMap
    /\ initialized = <<>>
    /\ registered = <<>>

IdleCall ==
    /\ pc = "idle"
    /\ received = NoRequest
    /\ request = NoRequest
    /\ ri = 0
    /\ selected = NoSelection
    /\ fi = 0
    /\ inner = NoRequest
    /\ response = NoResponse
    /\ trace = <<>>
    /\ raised = "none"

\* Application(): no router, no filter, no extension.
Init ==
    /\ IdleRule
    /\ IdleExt
    /\ IdleCall
    /\ routers = <<>>
    /\ appFilters = <<>>

\* The application serves one request after its routers and filters were
\* added.
Next ==
    \/ \E rt \in RouterCatalogue : AddRouter(rt)
    \/ \E fl \in FilterChoices : AppAddFilter(fl)
    \/ \E req \in Requests : Call(req)
    \/ Search
    \/ AppBefore
    \/ RtBefore
    \/ Handler
    \/ RtAfter
    \/ AppAfter

Spec == Init /\ [][Next]_vars

\* One router, Router(prefix, domain), its routes registered and then
\* matched against a request.
InitRouter ==
    /\ IdleRule
    /\ IdleExt
    /\ IdleCall
    /\ \E p \in Prefixes, d \in Domains : routers = <<NewRouter(p, d, <<>>)>>
    /\ appFilters = <<>>

NextRouter ==
    \/ \E r \in RouterRules, ms \in MethodChoices : Route(1, r, ms)
    \/ \E req \in RouterRequests : Match(req)

SpecRouter == InitRouter /\ [][NextRouter]_vars

\* One router with one route; its filters are added, a request is matched
\* and the handler Match returned is invoked.
InitFilter ==
    /\ IdleRule
    /\ IdleExt
    /\ IdleCall
    /\ routers = <<WithRoute(NewRouter(<<>>, NoDomain, <<>>),
                             <<"/", "{", "p", ":", "a", "n", "y", "}">>,
                             DefaultMethods, "fn1")>>
    /\ appFilters = <<>>

NextFilter ==
    \/ \E fl \in FilterChoices : RouterAddFilter(1, fl)
    \/ \E fn \in HookFunctions : RouterBeforeRequest(1, fn)
    \/ \E fn \in HookFunctions : RouterAfterRequest(1, fn)
    \/ \E req \in Requests : Match(req)
    \/ Invoke
    \/ RtBefore
    \/ Handler
    \/ RtAfter

SpecFilter == InitFilter /\ [][NextFilter]_vars

\* The extension registry of a fresh application.
NextExt == \E inst \in ExtInstances : RegisterExtension(inst)

SpecExt == Init /\ [][NextExt]_vars

\* An application whose routers and filters are set up serves requests;
\* some of its hooks and handlers raise.  A hook or a handler that was
\* called returns or raises, and the loops of __call__ and of apply go on.
InitServe ==
    /\ IdleRule
    /\ IdleExt
    /\ IdleCall
    /\ routers \in ServeRouterLists
    /\ appFilters \in ServeFilterLists

Advance == Search \/ AppBefore \/ RtBefore \/ Handler \/ RtAfter \/ AppAfter

NextServe ==
    \/ \E req \in Requests : Call(req)
    \/ Search
    \/ AppBefore
    \/ RtBefore
    \/ Handler
    \/ RtAfter
    \/ AppAfter

SpecServe == InitServe /\ [][NextServe]_vars /\ WF_vars(Advance)

\* Routers are constructed with a filters argument.
NextCtor == \E fs \in FilterArgs : RouterNew(fs)

SpecCtor == Init /\ [][NextCtor]_vars

\* A rule is compiled and matched against a subject.
InitRule ==
    /\ rule \in RuleInputs
    /\ subject \in Subjects
    /\ compiled = Pending
    /\ outcome = NoOutcome
    /\ supplied = <<>>
    /\ methodsArg = NoMethods
    /\ IdleExt
    /\ IdleCall
    /\ routers = <<>>
    /\ appFilters = <<>>

NextRule == Compile \/ MatchSubject

SpecRule == InitRule /\ [][NextRule]_vars

(***************************************************************************)
(* The claims                                                              *)
(***************************************************************************)
Min(S) == CHOOSE x \in S : \A y \in S : x <= y

IsPrefix(a, b) == Len(a) <= Len(b) /\ SubSeq(b, 1, Len(a)) = a

\* The hooks and handlers executed so far: trace without the matches.
HookTrace == SelectSeq(trace, LAMBDA e : e.ev # "match")

\* The matches made so far.
MatchTrace == SelectSeq(trace, LAMBDA e : e.ev = "match")

\* The chain of filters fs around a handler, as the claims state it: the
\* before hooks in registration order, what is inside, the after hooks in
\* reverse registration order.
Chain(scope, fs, inside) ==
    [k \in 1..Len(fs) |-> Event("before", scope, k, fs[k].id, 0)]
    \o inside
    \o [k \in 1..Len(fs) |->
           Event("after", scope, Len(fs) + 1 - k, fs[Len(fs) + 1 - k].id, 0)]

HandlerEvent ==
    Event("handler", "router", selected.route,
          routers[selected.router].routes[selected.route].handler, 0)

RouterChain == Chain("router", routers[selected.router].filters, <<HandlerEvent>>)

\* C1: for a router with the filters F1..Fn and a route handler H, the
\* handler Match returned executes F1.before, ..., Fn.before, H, Fn.after,
\* ..., F1.after and nothing else: at every moment of the invocation what
\* was executed is a beginning of that sequence, and when the invocation
\* returns it is the whole of it, each hook and H once.
C1_RouterHookOrder ==
    /\ pc \in {"rtBefore", "handler", "rtAfter"} => IsPrefix(HookTrace, RouterChain)
    /\ pc = "returned" => HookTrace = RouterChain

C1_Witness ==
    /\ pc = "returned"
    /\ Len(routers[1].filters) = 2
    /\ routers[1].filters[1].id # routers[1].filters[2].id
    /\ Len(HookTrace) = 5

\* The routers that would yield a handler for the request of the call.
Matching == {i \in 1..Len(routers) : RouterMatch(routers[i], received).route # 0}

\* The matches of the routers 1..n in order, one each.
MatchesUpTo(n) ==
    [i \in 1..n |->
        Event("match", "router", i, "", RouterMatch(routers[i], received).examined)]

\* The marks the after hooks of the filters fs leave on a response, in
\* the order of the claims: the last filter first.
RECURSIVE AfterMarks(_)
AfterMarks(fs) ==
    IF Len(fs) = 0 THEN <<>>
    ELSE (IF fs[Len(fs)].after = "hook" THEN <<fs[Len(fs)].id>> ELSE <<>>)
         \o AfterMarks(SubSeq(fs, 1, Len(fs) - 1))

\* C2: one invocation of the application with the filters A1..Am and a
\* matching router with the filters R1..Rn runs, in this order, the match
\* of the router, A1.before..Am.before, R1.before..Rn.before, the handler,
\* Rn.after..R1.after, Am.after..A1.after, and returns what the last of
\* them, A1.after, returned.
C2_ApplicationHookOrder ==
    /\ pc \in {"appBefore", "rtBefore", "handler", "rtAfter", "appAfter"} =>
          /\ MatchTrace = MatchesUpTo(selected.router)
          /\ IsPrefix(trace, MatchTrace \o Chain("app", appFilters, RouterChain))
    /\ pc = "responded" =>
          /\ trace = MatchesUpTo(selected.router) \o Chain("app", appFilters, RouterChain)
          /\ response.by = HandlerEvent.who
          /\ response.marks = AfterMarks(routers[selected.router].filters)
                              \o AfterMarks(appFilters)

C2_Witness ==
    /\ pc = "responded"
    /\ Len(appFilters) = 2
    /\ appFilters[1].id # appFilters[2].id
    /\ Len(routers[selected.router].filters) = 2
    /\ response.marks = <<"rc", "rb", "f1">>

\* C4: the application dispatches to the earliest-registered router whose
\* Match yields a handler: the routers registered before it are matched
\* and skipped, no router registered after it is ever matched, and the
\* handler of that one router is the only handler invoked.
C4_FirstMatchingRouter ==
    /\ (pc # "idle" /\ Matching # {}) =>
          \A k \in 1..Len(trace) : trace[k].ev = "match" => trace[k].idx <= Min(Matching)
    /\ pc = "responded" =>
          /\ selected.router = Min(Matching)
          /\ MatchTrace = MatchesUpTo(Min(Matching))
          /\ SelectSeq(trace, LAMBDA e : e.ev = "handler") = <<HandlerEvent>>
          /\ response.by = routers[Min(Matching)].routes[selected.route].handler

C4_Witness ==
    /\ pc = "responded"
    /\ Len(routers) = 3
    /\ Matching = {2, 3}
    /\ routers[2] # routers[3]
    /\ selected.router = 2

\* C5: an invocation fails with NotFound and the detail "no handler match"
\* exactly when no registered router yields a handler for the request (an
\* application without routers included), and then no filter hook and no
\* handler has been executed.
C5_NotFound ==
    /\ pc \in {"notfound", "responded"} => (pc = "notfound" <=> Matching = {})
    /\ pc = "notfound" =>
          /\ raised = "HTTPNotFound: no handler match"
          /\ HookTrace = <<>>
          /\ MatchTrace = MatchesUpTo(Len(routers))
          /\ response = NoResponse
    /\ raised = "HTTPNotFound: no handler match" => pc = "notfound"
    /\ (pc # "idle" /\ Matching = {}) => pc \in {"search", "notfound"}

C5_Witness ==
    /\ pc = "notfound"
    /\ Len(routers) = 2
    /\ Len(appFilters) = 1
    /\ raised = "HTTPNotFound: no handler match"

\* The path of the received request with the prefix of router 1 cut off.
Stripped ==
    SubSeq(received.path, Len(routers[1].prefix) + 1, Len(received.path))

\* Whether the received request passes the domain and the prefix test of
\* router 1.
PassesTests ==
    /\ ~routers[1].domain.set \/ ReMatch(routers[1].domain.re, received.host).ok
    /\ StartsWith(received.path, routers[1].prefix)

\* The routes of router 1 whose method set holds the method of the
\* request and whose pattern matches the stripped path.
Eligible ==
    {j \in 1..Len(routers[1].routes) :
        /\ received.method \in routers[1].routes[j].methods
        /\ ReMatch(routers[1].routes[j].pattern, Stripped).ok}

\* C3: within one router, for a request that passes the domain and the
\* prefix test, Match returns the handler of the earliest-registered route
\* whose method set contains the method and whose pattern matches the
\* prefix-stripped path; a later route that matches too is never selected.
C3_FirstMatchingRoute ==
    (pc \in {"matched", "absent"} /\ PassesTests) =>
        IF Eligible = {} THEN pc = "absent"
        ELSE /\ pc = "matched"
             /\ selected.route = Min(Eligible)
             /\ routers[1].routes[selected.route].handler
                    = HandlerName("fn", Min(Eligible))

C3_Witness ==
    /\ pc = "matched"
    /\ Eligible = {1, 2}
    /\ routers[1].routes[1].pattern # routers[1].routes[2].pattern
    /\ selected.route = 1

\* The number of routes the last match examined.
Examined == trace[Len(trace)].n

\* C8: Match returns None without examining any route when the router has
\* a domain restriction that does not match the host of the request from
\* its beginning, or when the path does not start with the prefix of the
\* router; a router without a domain restriction passes the domain test
\* for every host.
C8_DomainAndPrefixTests ==
    pc \in {"matched", "absent"} =>
        LET rt == routers[1]
            domainFails == rt.domain.set /\ ~ReMatch(rt.domain.re, received.host).ok
            prefixFails == ~StartsWith(received.path, rt.prefix)
        IN  /\ (domainFails \/ prefixFails) =>
                  /\ pc = "absent"
                  /\ Examined = 0
                  /\ request = received
            /\ (rt.domain = DomainRe(Literal(<<"a", "b">>))
                  /\ SubSeq(received.host, 1, 2) # <<"a", "b">>) => domainFails
            /\ (~rt.domain.set /\ ~prefixFails /\ Len(rt.routes) > 0) => Examined >= 1

C8_Witness ==
    /\ pc = "absent"
    /\ routers[1].domain.set
    /\ received.host = <<"c", "a", "b">>
    /\ StartsWith(received.path, routers[1].prefix)
    /\ Eligible # {}
    /\ Examined = 0

\* C9: when Match selects a route, the parameters of the request are
\* afterwards exactly the named captures of that route, each cast by the
\* cast recorded for its name (an int parameter is an integer: the rule
\* "/{id:int}" on "/42" gives {id: 42}), and nothing the request carried
\* as parameters before the match is left.
C9_ParametersAfterMatch ==
    pc = "matched" =>
        LET route == routers[1].routes[selected.route]
            names == {GroupNames(route.pattern)[i] : i \in 1..Len(GroupNames(route.pattern))}
        IN  /\ request.hasArgs
            /\ DOMAIN request.args = names
            /\ DOMAIN request.args = DOMAIN route.casts
            /\ \A k \in DOMAIN request.args :
                  /\ route.casts[k] = "int" =>
                        /\ request.args[k] \in Int
                        /\ \E a, b \in 1..Len(Stripped) :
                              /\ a <= b
                              /\ Stripped[a] \in Digits \cup {"+", "-"}
                              /\ \A i \in (a + 1)..b : Stripped[i] \in Digits
                              /\ Stripped[b] \in Digits
                              /\ IntCast(SubSeq(Stripped, a, b)) = request.args[k]
                  /\ route.casts[k] = "str" =>
                        \E a, b \in 1..Len(Stripped) :
                              a <= b /\ SubSeq(Stripped, a, b) = request.args[k]
            /\ (route.pattern = RuleParse(<<"/", "{", "i", "d", ":", "i", "n", "t", "}">>).pattern
                  /\ Stripped = <<"/", "4", "2">>) =>
                  request.args = [k \in {<<"i", "d">>} |-> 42]
            /\ (route.pattern = RuleParse(<<"/", "{", "n", "}">>).pattern
                  /\ Stripped = <<"/", "a", "b">>) =>
                  request.args = [k \in {<<"n">>} |-> <<"a", "b">>]

C9_Witness ==
    /\ pc = "matched"
    /\ received.hasArgs
    /\ received.args = StaleArgs
    /\ request.args = [k \in {<<"k">>, <<"i", "d">>} |->
                          IF k = <<"k">> THEN <<"a">> ELSE 42]

\* C6: registering an object that is no Extension raises no error, calls
\* no initialize and leaves the extension registry as it was before the
\* call.
C6_NonExtensionIgnored ==
    [][(registered' # registered /\ ~registered'[Len(registered')].isExtension) =>
          /\ extensions' = extensions
          /\ initialized' = initialized
          /\ raised' = "none"]_vars

C6_Witness ==
    /\ Len(registered) = 2
    /\ ~registered[1].isExtension
    /\ ~registered[2].isExtension
    /\ DOMAIN extensions = {}
    /\ initialized = <<>>

\* The extensions among the instances registered so far.
ValidRegistered == SelectSeq(registered, LAMBDA inst : inst.isExtension)

\* C7: after any sequence of register_extension calls the registry holds,
\* for each type of which an extension was registered, exactly one entry,
\* the most recently registered instance of that type; instances of
\* distinct types never replace one another; every registration of an
\* extension calls its initialize once.
C7_OneEntryPerType ==
    LET valid   == ValidRegistered
        classes == {valid[i].cls : i \in 1..Len(valid)}
        last(c) == valid[CHOOSE i \in 1..Len(valid) :
                            /\ valid[i].cls = c
                            /\ \A j \in 1..Len(valid) : valid[j].cls = c => j <= i]
    IN  /\ \A c \in classes :
              /\ Cardinality({n \in DOMAIN extensions : extensions[n].cls = c}) = 1
              /\ \E n \in DOMAIN extensions : extensions[n] = last(c)
        /\ initialized = [i \in 1..Len(valid) |-> valid[i].obj]

\* The part of the subject after "/items/".
Value == SubSeq(subject, Len(Items) + 1, Len(subject))

Name == <<"n", "a", "m", "e">>

StrRules ==
    {Items \o <<"{", "n", "a", "m", "e", "}">>,
     Items \o <<"{", "n", "a", "m", "e", ":", "s", "t", "r", "}">>}

WordRule == Items \o <<"{", "n", "a", "m", "e", ":", "w", "o", "r", "d", "}">>

\* C10: a parameter of type str, written out or defaulted, is never
\* satisfied by a value of one character and is satisfied by a value of
\* two or more characters none of which is a slash; a parameter of type
\* word is satisfied by a value of one or more word characters.  The rule
\* "/items/{name}" does not match "/items/a" and matches "/items/socks";
\* the rule "/items/{name:word}" matches "/items/a".
C10_StrNeedsTwoCharacters ==
    outcome.done =>
        /\ rule \in StrRules =>
              /\ Len(Value) <= 1 => ~outcome.ok
              /\ (Len(Value) >= 2 /\ \A i \in 1..Len(Value) : Value[i] # "/") =>
                    /\ outcome.ok
                    /\ outcome.args = [k \in {Name} |-> Value]
        /\ (/\ rule = WordRule
            /\ Len(Value) >= 1
            /\ \A i \in 1..Len(Value) : Value[i] \in Letters \cup Digits \cup {"_"}) =>
                    /\ outcome.ok
                    /\ outcome.args = [k \in {Name} |-> Value]
        /\ (rule = Items \o <<"{", "n", "a", "m", "e", "}">> /\ Value = <<"a">>) => ~outcome.ok
        /\ (rule = Items \o <<"{", "n", "a", "m", "e", "}">> /\ Value = <<"s", "o", "c", "k", "s">>)
              => outcome.ok
        /\ (rule = WordRule /\ Value = <<"a">>) => outcome.ok

C10_Witness ==
    /\ outcome.done
    /\ rule = WordRule
    /\ Value = <<"a">>
    /\ outcome.ok
    /\ outcome.args = [k \in {Name} |-> <<"a">>]

\* C11: a parameter written {name}, without a type tag, gets the type str
\* and captures one path segment: whenever the rule "/items/{name}" matches
\* a path, the cast recorded for name is str and the value captured for
\* name holds no "/".
C11_DefaultStrOneSegment ==
    (/\ rule = Items \o <<"{", "n", "a", "m", "e", "}">>
     /\ outcome.done
     /\ outcome.ok) =>
        /\ compiled.route.casts = [k \in {Name} |-> "str"]
        /\ DOMAIN outcome.args = {Name}
        /\ \A i \in 1..Len(outcome.args[Name]) : outcome.args[Name][i] # "/"

\* The parameter specifications of the rule r: the places of a "{" and of
\* the first "}" after it.
SpecsOf(r) ==
    {sp \in (1..Len(r)) \X (1..Len(r)) :
        /\ sp[1] < sp[2]
        /\ r[sp[1]] = "{"
        /\ r[sp[2]] = "}"
        /\ \A k \in (sp[1] + 1)..(sp[2] - 1) : r[k] \notin {"{", "}"}}

\* The places of the type separators of the specification sp of r.
Separators(r, sp) == {k \in (sp[1] + 1)..(sp[2] - 1) : r[k] = ":"}

\* r holds a specification with more than one type separator.
Malformed(r) == \E sp \in SpecsOf(r) : Cardinality(Separators(r, sp)) > 1

\* r holds a specification whose type tag is none of str, word, any, int
\* and float.
UnknownType(r) ==
    \E sp \in SpecsOf(r) :
        /\ Cardinality(Separators(r, sp)) = 1
        /\ \E k \in Separators(r, sp) : SubSeq(r, k + 1, sp[2] - 1) \notin TypeTags

\* C12: registering a route whose rule holds a parameter specification
\* with more than one ":" or with a type tag outside str, word, any, int,
\* float fails in the registration itself, and the route list of the router
\* is after the failed registration what it was before; a match, the step
\* that extends trace, raises nothing.
C12_BadRuleFailsAtRegistration ==
    [][/\ (trace' = trace /\ Malformed(rule')) =>
              /\ raised' = "error pattern"
              /\ routers' = routers
       /\ (trace' = trace /\ UnknownType(rule') /\ ~Malformed(rule')) =>
              /\ raised' = "KeyError"
              /\ routers' = routers
       /\ trace' # trace => raised' = "none"]_vars

C12_Witness ==
    /\ Malformed(rule)
    /\ raised = "error pattern"
    /\ Len(routers[1].routes) = 1
    /\ pc = "idle"

\* A rule that names the parameter n twice, first of type str, then of
\* type int.
DuplicateNameRule ==
    <<"/", "{", "n", "}", "/", "{", "n", ":", "i", "n", "t", "}">>

\* C13: registering a route whose rule uses one parameter name in two
\* parameter specifications is no error: after route() was given such a
\* rule nothing is raised, the route is the last of the route list, and its
\* cast table holds for the name the cast of the later occurrence.
C13_DuplicateNameAccepted ==
    (pc = "idle" /\ rule = DuplicateNameRule) =>
        /\ raised = "none"
        /\ Len(routers[1].routes) >= 1
        /\ LET route == routers[1].routes[Len(routers[1].routes)]
           IN  /\ GroupNames(route.pattern) = <<<<"n">>, <<"n">>>>
               /\ route.casts = [k \in {<<"n">>} |-> "int"]

\* C14: Router(filters=fs) with an element in fs that is no Filter fails
\* and yields no router (the routers of the program are what they were);
\* when every element of fs is a Filter the call returns a router whose
\* filter list is fs, element for element in the same order.
C14_ConstructorChecksFilters ==
    [][IF \E i \in 1..Len(supplied') : ~IsFilter(supplied'[i])
       THEN /\ raised' = "Exception: is not a Filter"
            /\ routers' = routers
       ELSE /\ raised' = "none"
            /\ Len(routers') = Len(routers) + 1
            /\ SubSeq(routers', 1, Len(routers)) = routers
            /\ routers'[Len(routers')].filters = supplied']_vars

C14_Witness ==
    /\ Len(routers) = 1
    /\ Len(routers[1].filters) = 2
    /\ routers[1].filters[1] # routers[1].filters[2]
    /\ Len(supplied) = 2
    /\ IsFilter(supplied[1])
    /\ ~IsFilter(supplied[2])
    /\ raised = "Exception: is not a Filter"

\* C15: Match never selects a route whose method set does not hold the
\* method of the request; a route registered without a method list has the
\* method set GET, POST, PUT, PATCH, DELETE, OPTION and no other; so a
\* route registered so is not selected for a request of the method OPTIONS
\* or HEAD.
C15_MethodSetGuardsSelection ==
    [][/\ pc' = "matched" =>
              /\ received'.method \in routers'[1].routes[selected'.route].methods
              /\ received'.method \in {"OPTIONS", "HEAD"} =>
                    routers'[1].routes[selected'.route].methods
                        # {"GET", "POST", "PUT", "PATCH", "DELETE", "OPTION"}
       /\ (routers' # routers /\ ~methodsArg'.given) =>
              routers'[1].routes[Len(routers'[1].routes)].methods
                  = {"GET", "POST", "PUT", "PATCH", "DELETE", "OPTION"}]_vars

C15_Witness ==
    /\ pc = "absent"
    /\ received.method = "HEAD"
    /\ PassesTests
    /\ Len(routers[1].routes) = 1
    /\ ~methodsArg.given
    /\ ReMatch(routers[1].routes[1].pattern, Stripped).ok
    /\ routers[1].routes[1].methods = DefaultMethods

\* What the before hooks of the first k filters of fs make of the request
\* req, each handed what the one before it returned.
RECURSIVE ThreadBefore(_, _, _)
ThreadBefore(fs, req, k) ==
    IF k = 0 THEN req ELSE BeforeHook(fs[k], ThreadBefore(fs, req, k - 1))

\* What the after hooks of the last k filters of fs make of the response
\* res, the last filter first, each handed what the one after it returned.
RECURSIVE ThreadAfter(_, _, _, _)
ThreadAfter(fs, req, res, k) ==
    IF k = 0 THEN res
    ELSE AfterHook(fs[Len(fs) + 1 - k], req, ThreadAfter(fs, req, res, k - 1))

\* The request the handler of the invocation in flight is called with.
AtHandler == ThreadBefore(routers[1].filters, request, Len(routers[1].filters))

\* The threading of the request and of the response through the filters
\* of router 1.
Threaded ==
    LET fs  == routers[1].filters
        res == HandlerCall(routers[1].routes[selected.route].handler, AtHandler)
    IN  /\ pc = "rtBefore" => inner = ThreadBefore(fs, request, fi - 1)
        /\ pc = "handler" => inner = AtHandler
        /\ pc = "rtAfter" => response = ThreadAfter(fs, AtHandler, res, fi - 1)
        /\ pc = "returned" => response = ThreadAfter(fs, AtHandler, res, Len(fs))

\* The response of the handler of the selected route for the request req.
HandlerResponse(req) ==
    HandlerCall(routers[1].routes[selected.route].handler, req)

\* C16 as stated: the values are threaded (F(i+1).before receives what
\* Fi.before returned, the handler what Fn.before returned, Fi.after what
\* F(i+1).after returned, and what F1.after returns is the response), and
\* a chain made only of default filters or of hook-function adapters, whose
\* other hook is the default, returns exactly the response of the handler
\* for the request the wrapped handler was called with.
C16_ThreadingAsStated ==
    /\ Threaded
    /\ (/\ pc = "returned"
        /\ \A i \in 1..Len(routers[1].filters) :
              \/ routers[1].filters[i].before = "default"
              \/ routers[1].filters[i].after = "default") =>
           response = HandlerResponse(request)

\* C16, amended: the values are threaded as stated; a chain of default
\* filters returns exactly the response of the handler for the request the
\* wrapped handler was called with; a hook-function adapter changes nothing
\* by its other hook: when no filter has an after hook of its own the
\* response is exactly what the handler returned for the request the before
\* hooks produced, and when no filter has a before hook of its own the
\* handler is called with the request the wrapped handler was called with.
C16_ThreadedValues ==
    /\ Threaded
    /\ pc = "returned" =>
          LET fs == routers[1].filters
          IN  /\ (\A i \in 1..Len(fs) : fs[i].before = "default" /\ fs[i].after = "default")
                    => response = HandlerResponse(request)
              /\ (\A i \in 1..Len(fs) : fs[i].after = "default")
                    => response = HandlerResponse(AtHandler)
              /\ (\A i \in 1..Len(fs) : fs[i].before = "default")
                    => /\ AtHandler = request
                       /\ response.saw = request.marks
                       /\ response.args = request.args

C16_Witness ==
    /\ pc = "returned"
    /\ routers[1].filters = <<NewFilter("f1", "hook", "hook"), NewFilter("g1", "hook", "default")>>
    /\ response.saw = <<"f1", "g1">>
    /\ response.marks = <<"f1">>

\* The filters and handlers of the application that raise.
Raisers ==
    {appFilters[i].id : i \in {j \in 1..Len(appFilters) :
        appFilters[j].before = "raise" \/ appFilters[j].after = "raise"}}
    \cup UNION {{routers[i].filters[k].id : k \in {j \in 1..Len(routers[i].filters) :
                    routers[i].filters[j].before = "raise"
                    \/ routers[i].filters[j].after = "raise"}} : i \in 1..Len(routers)}
    \cup UNION {{routers[i].routes[k].handler : k \in {j \in 1..Len(routers[i].routes) :
                    routers[i].routes[j].handler \in BrokenHandlers}} : i \in 1..Len(routers)}

\* The states of one invocation: Received, RouterSearch, Matched,
\* Responded, Unmatched with NotFoundReported.
MatchedStates == {"appBefore", "rtBefore", "handler", "rtAfter", "appAfter"}

\* The steps the state machine of one invocation allows.
MachineStep ==
    \/ pc = "idle" /\ pc' = "search"
    \/ pc = "search" /\ pc' \in {"search", "appBefore", "notfound"}
    \/ pc \in MatchedStates /\ pc' \in MatchedStates \cup {"responded", "failed"}

\* Each router was consulted at most once, in registration order.
ConsultedOnce ==
    /\ Len(MatchTrace) <= Len(routers)
    /\ \A k \in 1..Len(MatchTrace) : MatchTrace[k].idx = k

\* C17: an invocation goes Received, RouterSearch and then either Matched
\* and Responded or Unmatched and NotFoundReported: no step leaves
\* Responded or NotFoundReported, none leads from Matched to Unmatched or
\* back into the search, each router is consulted at most once, and when
\* every hook and handler returns the invocation that entered the search
\* ends in Responded or in NotFoundReported.
C17_InvocationStateMachine ==
    /\ [][/\ MachineStep
          /\ ConsultedOnce'
          /\ pc' = "notfound" => selected' = NoSelection
          /\ pc' \in MatchedStates \cup {"responded"} => selected' # NoSelection]_vars
    /\ (pc = "search" /\ Raisers = {}) ~> (pc \in {"responded", "notfound"})

C17_Witness ==
    /\ pc = "responded"
    /\ Raisers = {}
    /\ Len(routers) = 3
    /\ selected.router = 2
    /\ Len(MatchTrace) = 2
    /\ Len(appFilters) = 2

\* The filter whose hook the event e of trace is.
FilterOf(e) ==
    IF e.scope = "app" THEN appFilters[e.idx]
    ELSE routers[selected.router].filters[e.idx]

\* The event e is the call of a hook or of a handler that raises.
Raiser(e) ==
    CASE e.ev = "before"  -> FilterOf(e).before = "raise"
      [] e.ev = "after"   -> FilterOf(e).after = "raise"
      [] e.ev = "handler" -> e.who \in BrokenHandlers
      [] OTHER            -> FALSE

LastEvent == trace[Len(trace)]

\* What holds of an invocation in which a hook or the handler raised.
Propagated ==
    /\ \A k \in 1..(Len(trace) - 1) : ~Raiser(trace[k])
    /\ (Len(trace) > 0 /\ Raiser(LastEvent)) =>
          /\ pc = "failed"
          /\ raised = "error of " \o LastEvent.who
    /\ pc = "failed" =>
          /\ Len(trace) > 0
          /\ Raiser(LastEvent)
          /\ MatchTrace = MatchesUpTo(selected.router)
          /\ IsPrefix(trace, MatchTrace \o Chain("app", appFilters, RouterChain))
          /\ LastEvent.ev \in {"before", "handler"} =>
                /\ \A k \in 1..Len(trace) : trace[k].ev # "after"
                /\ response = NoResponse
          /\ LastEvent.ev = "before" =>
                \A k \in 1..Len(trace) : trace[k].ev # "handler"

\* C18: an error raised by a before hook, by the handler or by an after
\* hook, of the router or of the application, is not caught: the
\* invocation fails with that error, the raising hook or handler is the
\* last thing executed (after a failing handler no after hook runs, after
\* a failing before hook no handler), no router after the one dispatched
\* to is matched, and no step follows the failure.
C18_ErrorsPropagate ==
    [][pc # "failed" /\ Propagated']_vars

C18_Witness ==
    /\ pc = "failed"
    /\ LastEvent.ev = "handler"
    /\ raised = "error of bad1"
    /\ Len(appFilters) = 2
    /\ selected.router = 2
    /\ Matching = {2, 3}
    /\ Len(HookTrace) = 4

\* The parameters the route selected in the invocation in flight gives
\* the request as it was received.
SelectedArgs ==
    LET rt    == routers[selected.router]
        route == rt.routes[selected.route]
        m     == ReMatch(route.pattern, ReplaceFirst(received.path, rt.prefix))
    IN  [k \in DOMAIN m.dict |-> Cast(route.casts[k], m.dict[k])]

\* C19: a Match that returns None leaves the parameters of the request as
\* they were: while the routers tried so far all returned None, and when
\* all of them did, the request is the one received, stale parameters
\* included; after the dispatch to router k the parameters of the request,
\* and the ones the handler sees, are the captures of the selected route
\* of router k alone.
C19_AbsentMatchKeepsParameters ==
    /\ pc \in {"search", "notfound"} =>
          /\ request = received
          /\ Len(MatchTrace) = ri - 1
    /\ pc \in MatchedStates \cup {"responded", "failed"} =>
          /\ request.hasArgs
          /\ request.args = SelectedArgs
          /\ DOMAIN request.args
                = {GroupNames(SelectedRoute.pattern)[i] :
                      i \in 1..Len(GroupNames(SelectedRoute.pattern))}
    /\ pc \in {"rtAfter", "appAfter", "responded"} => response.args = SelectedArgs

C19_Witness ==
    /\ pc = "responded"
    /\ selected.router = 2
    /\ received.hasArgs
    /\ received.args = StaleArgs
    /\ MatchTrace[1].n = 1
    /\ request.args = [k \in {<<"i", "d">>} |-> 42]
    /\ response.args = request.args

====
